---- MODULE Spec2Model ----
(***************************************************************************)
(* Model of keras/inceptionv3/hdf5_generators.py: a linear training script *)
(* (argument parsing, HDF5 label loading and subsetting, model building,   *)
(* head-only training, intermediate save/reload, checkpointed fine-tuning, *)
(* optional history plot).  One action per statement group of the script;  *)
(* an unhandled exception in any statement ends the process.               *)
(***************************************************************************)
EXTENDS Integers, Sequences, FiniteSets, TLC

(* ------------------------------ bounds --------------------------------- *)
MaxNegEpochs == 1
MaxEpochs == 3
MaxNegTiles == 1
MaxTiles == 6
TrainRows == 4
ValRows == 2
MaxAcc == 1

(* ------------------------- program constants --------------------------- *)
InceptionLayers == 311
HeadLayers == 4
FreezeBoundary == 280
OutUnits == 2
HeadEpochs == 1

(* ------------------------------ helpers -------------------------------- *)
\* Optional values (Python None) are sets with at most one element.
None == {}
Some(x) == {x}
The(opt) == CHOOSE x \in opt : TRUE

max(a, b) == IF a >= b THEN a ELSE b

RECURSIVE SeqMax(_)
\* np.max over a non-empty label vector
SeqMax(s) == IF Len(s) = 1 THEN s[1] ELSE max(s[1], SeqMax(Tail(s)))

\* Python truthiness of an optional string: None and "" are false
Truthy(opt) == \E s \in opt : s # ""

\* int(n * num/10) for the literals 0.8 and 0.2: the double product never
\* crosses an integer for |n| < 2^31, and int() truncates toward zero.
IntOfProduct(n, num) ==
    IF n >= 0 THEN (n * num) \div 10 ELSE -(((-n) * num) \div 10)

TrainFracSwapped(tiles) == IntOfProduct(tiles, 2)
train_frac(tiles) == IntOfProduct(tiles, 8)

val_frac(tiles) == IntOfProduct(tiles, 2)

\* HDF5Matrix(path, name, end=e): rows 0 .. e-1 of the named array.  The
\* view is only readable when 0 <= e <= number of stored rows.
Readable(data, e) == e >= 0 /\ e <= Len(data)
HDF5Matrix(data, e) == SubSeq(data, 1, e)
\* the image view, represented by the (0-based) row indices it addresses
HDF5Rows(e) == [i \in 1..e |-> i - 1]

\* to_categorical(y): one-hot rows of width max(y) + 1
NumClasses(y) == SeqMax(y) + 1
OneHot(c, w) == [j \in 1..w |-> IF j = c + 1 THEN 1 ELSE 0]
to_categorical(y) == [i \in 1..Len(y) |-> OneHot(y[i], NumClasses(y))]
Width(onehot) == IF Len(onehot) = 0 THEN 0 ELSE Len(onehot[1])

\* Model(inputs=..., outputs=...): a new, uncompiled model over the same layers
Model(m) == [m EXCEPT !.metrics = "uncompiled"]

\* multi_gpu_model(m, gpus): a wrapper whose layers are the input, one
\* slicing layer per GPU, the template model m (index gpus + 1) and the
\* merge; the template counts as non-trainable when it holds a frozen layer.
multi_gpu_model(m, gpus) ==
    [layers |-> gpus + 3,
     frozen |-> IF m.frozen = {} THEN {} ELSE {gpus + 1},
     metrics |-> "uncompiled"]

\* lines 101-106, 126-132, 171-177: GPUs <= 1 uses the model as is
Replicate(m, gpus) == IF gpus <= 1 THEN Model(m) ELSE multi_gpu_model(m, gpus)

\* InceptionV3(include_top=False) plus pooling, dense, dropout, dense
BaseModel ==
    [layers |-> InceptionLayers + HeadLayers, frozen |-> {},
     metrics |-> "uncompiled"]

\* layers[:k] and layers[k:] as sets of (0-based) layer indices
LayersUpTo(n, k) == {i \in 0..(n - 1) : i < k}
LayersFrom(n, k) == {i \in 0..(n - 1) : i >= k}

Trainable(m, i) == i \notin m.frozen

(* ------------------------------- state --------------------------------- *)
VARIABLES
    pc,                 \* next statement group of the script
    args,               \* parsed command line
    hdf5,               \* label arrays stored in the input file
    train_data, train_labels, val_data, val_labels,
    new_model,
    model,              \* [layers: number of layers, frozen: non-trainable
                        \*  layer indices, metrics: compile configuration]
    intermediate_model, \* model returned by load_model at line 170
    epochs,             \* epochs of the final fit (None until line 169/180)
    best,               \* ModelCheckpoint.best
    head_history,       \* epochs run by the phase-1 fit
    history,            \* val_acc of every epoch of the final fit
    intermediate_file,  \* ./intermediate_model.hdf5
    checkpoint_file,    \* {output_directory}/{output_name}_model.h5
    plot_file,          \* {output_directory}/{output_name}_training_history.png
    io_log,             \* reads and writes of model files, in order
    trace               \* statement groups executed, in order

vars == <<pc, args, hdf5, train_data, train_labels, val_data, val_labels,
          new_model, model, intermediate_model, epochs, best, head_history,
          history, intermediate_file, checkpoint_file, plot_file, io_log,
          trace>>

data_vars == <<train_data, train_labels, val_data, val_labels>>
file_vars == <<intermediate_file, checkpoint_file, plot_file>>
fit_vars == <<best, head_history, history>>

MinusInf == -1
AccVals == 0..MaxAcc
NoModel == [layers |-> 0, frozen |-> {}, metrics |-> "uncompiled"]
StaleModel == [layers |-> InceptionLayers + HeadLayers, frozen |-> {0},
               metrics |-> "loss_only"]
PriorModel == [layers |-> InceptionLayers + HeadLayers, frozen |-> {},
               metrics |-> "accuracy"]

\* the classes of the two-unit softmax output
Classes == 0..(OutUnits - 1)

\* label arrays of n rows: single-class arrays, or the classes in rotation
\* starting from any class
Labels(n) ==
    {[i \in 1..n |-> c] : c \in Classes}
        \cup {[i \in 1..n |-> (i + s) % OutUnits] : s \in Classes}

Init ==
    /\ pc = "load_data"
    /\ args \in [GPUs : {1, 2},
                 input_model : {None, Some(""), Some("prior.h5")},
                 epochs : (-MaxNegEpochs)..MaxEpochs,
                 tiles : {None} \cup {Some(n) : n \in (-MaxNegTiles)..MaxTiles},
                 graphical_history : BOOLEAN]
    /\ hdf5 \in [train_labels : Labels(TrainRows), val_labels : Labels(ValRows)]
    /\ train_data = <<>> /\ train_labels = <<>>
    /\ val_data = <<>> /\ val_labels = <<>>
    /\ new_model = FALSE
    /\ model = NoModel
    /\ intermediate_model = None
    /\ epochs = None
    /\ best = MinusInf
    /\ head_history = 0
    /\ history = <<>>
    /\ \E stale \in BOOLEAN :
         /\ intermediate_file =
              IF stale THEN Some([origin |-> "stale", model |-> StaleModel])
              ELSE None
         /\ checkpoint_file =
              IF stale THEN Some([origin |-> "stale", epoch |-> 0, val_acc |-> 0])
              ELSE None
    /\ plot_file = None
    /\ io_log = <<>>
    /\ trace = <<>>

\* An unhandled exception ends the process: there is no try/except.
OnFailureRetry(step) == step
OnFailure(step) == "crashed"

Step(name) == pc = name /\ trace' = Append(trace, name)

(* lines 77-83 *)
LoadData ==
    /\ Step("load_data")
    /\ train_data' = HDF5Rows(Len(hdf5.train_labels))
    /\ train_labels' = to_categorical(hdf5.train_labels)
    /\ val_data' = HDF5Rows(Len(hdf5.val_labels))
    /\ val_labels' = to_categorical(hdf5.val_labels)
    /\ pc' = "subset"
    /\ UNCHANGED <<args, hdf5, new_model, model, intermediate_model, epochs,
                   fit_vars, file_vars, io_log>>

\* A statement that raises: nothing of it takes effect, the process ends.
Raise(name) ==
    /\ Step(name)
    /\ pc' = OnFailure(name)
    /\ UNCHANGED <<args, hdf5, data_vars, new_model, model, intermediate_model,
                   epochs, fit_vars, file_vars, io_log>>

\* to_categorical raises on an empty array (np.max of nothing)
Loadable(data, e) == Readable(data, e) /\ e > 0

(* lines 85-94 *)
Subset ==
    /\ Step("subset")
    /\ UNCHANGED <<args, hdf5, new_model, model, intermediate_model, epochs,
                   fit_vars, file_vars, io_log>>
    /\ IF args.tiles = None
       THEN pc' = "build" /\ UNCHANGED data_vars
       ELSE LET tf == train_frac(The(args.tiles))
                vf == val_frac(The(args.tiles))
            IN IF ~Loadable(hdf5.train_labels, tf)
               THEN \* line 91 raises
                    /\ pc' = OnFailure("subset")
                    /\ train_data' = IF tf >= 0 THEN HDF5Rows(tf) ELSE train_data
                    /\ UNCHANGED <<train_labels, val_data, val_labels>>
               ELSE /\ train_data' = HDF5Rows(tf)
                    /\ train_labels' =
                         to_categorical(HDF5Matrix(hdf5.train_labels, tf))
                    /\ IF ~Loadable(hdf5.val_labels, vf)
                       THEN \* line 94 raises
                            /\ pc' = OnFailure("subset")
                            /\ val_data' = IF vf >= 0 THEN HDF5Rows(vf) ELSE val_data
                            /\ UNCHANGED val_labels
                       ELSE /\ val_data' = HDF5Rows(vf)
                            /\ val_labels' =
                                 to_categorical(HDF5Matrix(hdf5.val_labels, vf))
                            /\ pc' = "build"

(* lines 96-132 *)
Build ==
    /\ Step("build")
    /\ IF Truthy(args.input_model)
       THEN /\ new_model' = FALSE
            /\ model' = Replicate(PriorModel, args.GPUs)
            /\ io_log' = Append(io_log, <<"read", The(args.input_model)>>)
            /\ pc' = "reload"
       ELSE /\ new_model' = TRUE
            /\ model' = Replicate(BaseModel, args.GPUs)
            /\ io_log' = io_log
            /\ pc' = "freeze"
    /\ UNCHANGED <<args, hdf5, data_vars, intermediate_model, epochs, fit_vars,
                   file_vars>>

\* layers[:280] non-trainable, layers[280:] trainable
FrozenSet(m) ==
    (m.frozen \cup LayersUpTo(m.layers, FreezeBoundary))
        \ LayersFrom(m.layers, FreezeBoundary)

(* lines 134-140 *)
Freeze ==
    /\ Step("freeze")
    /\ model' = [model EXCEPT !.frozen = FrozenSet(model)]
    /\ pc' = "compile_head"
    /\ UNCHANGED <<args, hdf5, data_vars, new_model, intermediate_model, epochs,
                   fit_vars, file_vars, io_log>>

(* lines 142-146 *)
CompileHead ==
    /\ Step("compile_head")
    /\ model' = [model EXCEPT !.metrics = "accuracy"]
    /\ pc' = "fit_head"
    /\ UNCHANGED <<args, hdf5, data_vars, new_model, intermediate_model, epochs,
                   fit_vars, file_vars, io_log>>

\* fit rejects targets whose width is not the width of the softmax output
FitAccepts(onehot) == Width(onehot) = OutUnits

(* lines 148-154 *)
FitHead ==
    /\ Step("fit_head")
    /\ IF FitAccepts(train_labels)
       THEN head_history' = head_history + HeadEpochs /\ pc' = "unfreeze"
       ELSE head_history' = head_history /\ pc' = OnFailure("fit_head")
    /\ UNCHANGED <<args, hdf5, data_vars, new_model, model, intermediate_model,
                   epochs, best, history, file_vars, io_log>>

UnfrozenSetPartial(m) == m.frozen \ LayersFrom(m.layers, FreezeBoundary)
\* layers[:280] trainable again
UnfrozenSet(m) == m.frozen \ LayersUpTo(m.layers, FreezeBoundary)

(* lines 156-158 *)
Unfreeze ==
    /\ Step("unfreeze")
    /\ model' = [model EXCEPT !.frozen = UnfrozenSet(model)]
    /\ pc' = "compile_unfrozen"
    /\ UNCHANGED <<args, hdf5, data_vars, new_model, intermediate_model, epochs,
                   fit_vars, file_vars, io_log>>

(* lines 160-163 *)
CompileUnfrozen ==
    /\ Step("compile_unfrozen")
    /\ model' = [model EXCEPT !.metrics = "loss_only"]
    /\ pc' = "save_intermediate"
    /\ UNCHANGED <<args, hdf5, data_vars, new_model, intermediate_model, epochs,
                   fit_vars, file_vars, io_log>>

SavedFileSkipped(old, m) == old
\* model.save(...): the file now holds this run's model
SavedFile(old, m) == Some([origin |-> "run", model |-> m])

(* line 165 *)
SaveIntermediate ==
    /\ Step("save_intermediate")
    /\ intermediate_file' = SavedFile(intermediate_file, model)
    /\ io_log' = Append(io_log, <<"write", "intermediate_model.hdf5">>)
    /\ pc' = "reload"
    /\ UNCHANGED <<args, hdf5, data_vars, new_model, model, intermediate_model,
                   epochs, fit_vars, checkpoint_file, plot_file>>

ReloadsAlways(new) == TRUE
\* line 168: the intermediate model is reloaded only for a fresh model
ReloadsIntermediate(new) == new

FitEpochsUnfloored(new, requested) ==
    IF new THEN requested - 1 ELSE requested
FitEpochsNotReduced(new, requested) ==
    IF new THEN max(1, requested) ELSE requested
\* lines 169 and 180
fit_epochs(new, requested) ==
    IF new THEN max(1, requested - 1) ELSE requested

(* lines 167-180 *)
Reload ==
    /\ Step("reload")
    /\ epochs' = Some(fit_epochs(new_model, args.epochs))
    /\ IF ReloadsIntermediate(new_model)
       THEN IF intermediate_file = None
            THEN \* load_model raises: no such file
                 /\ pc' = OnFailure("reload")
                 /\ UNCHANGED <<model, intermediate_model, io_log>>
            ELSE /\ intermediate_model' = Some(The(intermediate_file))
                 /\ model' = Replicate(The(intermediate_file).model, args.GPUs)
                 /\ io_log' = Append(io_log, <<"read", "intermediate_model.hdf5">>)
                 /\ pc' = "compile"
       ELSE /\ pc' = "compile"
            /\ UNCHANGED <<model, intermediate_model, io_log>>
    /\ UNCHANGED <<args, hdf5, data_vars, new_model, fit_vars, file_vars>>

(* lines 182-187 *)
Compile ==
    /\ Step("compile")
    /\ model' = [model EXCEPT !.metrics = "accuracy"]
    /\ pc' = "callbacks"
    /\ UNCHANGED <<args, hdf5, data_vars, new_model, intermediate_model, epochs,
                   fit_vars, file_vars, io_log>>

(* lines 189-200: ModelCheckpoint starts with best = -inf *)
Callbacks ==
    /\ Step("callbacks")
    /\ best' = MinusInf
    /\ pc' = "fit"
    /\ UNCHANGED <<args, hdf5, data_vars, new_model, model, intermediate_model,
                   epochs, head_history, history, file_vars, io_log>>

(* lines 203-211: the call validates its arrays before the first epoch *)
Fit ==
    /\ Step("fit")
    /\ pc' = IF FitAccepts(train_labels) /\ FitAccepts(val_labels)
             THEN "fit_epoch" ELSE OnFailure("fit")
    /\ UNCHANGED <<args, hdf5, data_vars, new_model, model, intermediate_model,
                   epochs, fit_vars, file_vars, io_log>>

SavesEveryEpoch(current, b) == TRUE
\* save_best_only=True, monitor='val_acc', mode='auto': np.greater
Improved(current, b) == current > b

\* one epoch of the final fit, then ModelCheckpoint.on_epoch_end
FitEpoch ==
    /\ pc = "fit_epoch"
    /\ Len(history) < The(epochs)
    /\ \E val_acc \in AccVals :
         /\ history' = Append(history, val_acc)
         /\ IF Improved(val_acc, best)
            THEN /\ best' = val_acc
                 /\ checkpoint_file' =
                      Some([origin |-> "run", epoch |-> Len(history) + 1,
                            val_acc |-> val_acc])
                 /\ io_log' = Append(io_log, <<"write", "_model.h5">>)
            ELSE UNCHANGED <<best, checkpoint_file, io_log>>
    /\ UNCHANGED <<pc, args, hdf5, data_vars, new_model, model,
                   intermediate_model, epochs, head_history, intermediate_file,
                   plot_file, trace>>

\* range(0, epochs) exhausted: fit returns its History
FitReturn ==
    /\ pc = "fit_epoch"
    /\ Len(history) >= The(epochs)
    /\ pc' = "report"
    /\ UNCHANGED <<args, hdf5, data_vars, new_model, model, intermediate_model,
                   epochs, fit_vars, file_vars, io_log, trace>>

(* lines 215-229 *)
Report ==
    /\ Step("report")
    /\ plot_file' = IF args.graphical_history THEN Some(history) ELSE plot_file
    /\ pc' = "done"
    /\ UNCHANGED <<args, hdf5, data_vars, new_model, model, intermediate_model,
                   epochs, fit_vars, intermediate_file, checkpoint_file, io_log>>

\* Any library call may raise (I/O error, out of memory, no accelerator).
Fallible ==
    {"load_data", "subset", "build", "compile_head", "fit_head",
     "compile_unfrozen", "save_intermediate", "reload", "compile",
     "callbacks", "fit", "report"}

Fail ==
    \/ \E name \in Fallible :
         /\ name = "subset" => args.tiles # None
         /\ name = "report" => args.graphical_history
         /\ Raise(name)
    \/ /\ pc = "fit_epoch"
       /\ Len(history) < The(epochs)
       /\ pc' = OnFailure("fit")
       /\ UNCHANGED <<args, hdf5, data_vars, new_model, model,
                      intermediate_model, epochs, fit_vars, file_vars, io_log,
                      trace>>

Next ==
    \/ LoadData
    \/ Subset
    \/ Build
    \/ Freeze
    \/ CompileHead
    \/ FitHead
    \/ Unfreeze
    \/ CompileUnfrozen
    \/ SaveIntermediate
    \/ Reload
    \/ Compile
    \/ Callbacks
    \/ Fit
    \/ FitEpoch
    \/ FitReturn
    \/ Report
    \/ Fail

Spec == Init /\ [][Next]_vars

TypeOK == pc \in {"load_data", "subset", "build", "freeze", "compile_head",
                  "fit_head", "unfreeze", "compile_unfrozen",
                  "save_intermediate", "reload", "compile", "callbacks", "fit",
                  "fit_epoch", "report", "done", "crashed"}

(* ---------------------------- properties ------------------------------- *)
Phase2 == {"compile", "callbacks", "fit", "fit_epoch", "report", "done"}
InputModelSupplied == Truthy(args.input_model)
IntermediateName == "intermediate_model.hdf5"
WrittenByRun(f) == f # None /\ The(f).origin = "run"
Occurrences(s, x) == Cardinality({i \in 1..Len(s) : s[i] = x})
NoDuplicates(s) == \A i, j \in 1..Len(s) : s[i] = s[j] => i = j

\* C1: without an input model, intermediate_model.hdf5 is written by this
\* run's phase 1 (one head epoch done, layers unfrozen, recompiled) before
\* phase 2 begins; the reload never precedes the save and returns exactly
\* the artifact phase 1 just wrote.
C1_IntermediateSavedBeforeReload ==
    /\ (new_model /\ pc \in Phase2 \cup {"reload"}) =>
          /\ WrittenByRun(intermediate_file)
          /\ head_history = HeadEpochs
          /\ The(intermediate_file).model.frozen = {}
          /\ The(intermediate_file).model.metrics = "loss_only"
    /\ \A j \in 1..Len(io_log) :
          io_log[j] = <<"read", IntermediateName>> =>
             \E i \in 1..(j - 1) : io_log[i] = <<"write", IntermediateName>>
    /\ (new_model /\ pc \in Phase2) =>
          /\ intermediate_model = intermediate_file
          /\ WrittenByRun(intermediate_model)

C1_Witness ==
    /\ new_model /\ pc = "fit_epoch"
    /\ WrittenByRun(intermediate_model)
    /\ io_log = <<<<"write", IntermediateName>>, <<"read", IntermediateName>>>>

\* C2: the epochs handed to the final fit call are max(1, epochs - 1) for a
\* freshly built model and the epochs argument itself for an input model.
C2_FinalFitEpochs ==
    pc \in {"fit_epoch", "report", "done"} =>
       /\ epochs # None
       /\ InputModelSupplied => The(epochs) = args.epochs
       /\ ~InputModelSupplied =>
             The(epochs) = IF args.epochs - 1 > 1 THEN args.epochs - 1 ELSE 1

C2_Witness ==
    /\ pc = "fit_epoch" /\ ~InputModelSupplied
    /\ args.epochs <= 1 /\ The(epochs) = 1

\* C3: once an epoch of the final fit has run, the stored checkpoint is the
\* model of an epoch of this run whose validation accuracy is the highest
\* observed so far; a later, lower epoch never replaces it.
C3_CheckpointIsBest ==
    history # <<>> =>
       /\ WrittenByRun(checkpoint_file)
       /\ The(checkpoint_file).epoch \in 1..Len(history)
       /\ history[The(checkpoint_file).epoch] = The(checkpoint_file).val_acc
       /\ \A k \in 1..Len(history) : history[k] <= The(checkpoint_file).val_acc

C3_Witness ==
    /\ Len(history) >= 2
    /\ history[Len(history)] < history[1]
    /\ WrittenByRun(checkpoint_file)
    /\ The(checkpoint_file).epoch = 1

\* C4 (as stated): on the fresh-model path the epochs of phase 1 and phase 2
\* together total the requested epoch count, for every requested value.
C4_TotalEqualsRequested ==
    (new_model /\ pc = "done") =>
       head_history + Len(history) = args.epochs

\* C4 (amended): phase 1 runs exactly one epoch and phase 2 runs
\* max(1, epochs - 1) epochs; the total is the requested count when
\* epochs >= 2 and is 2 when epochs <= 1.
C4_TotalEpochs ==
    (new_model /\ pc = "done") =>
       /\ head_history = 1
       /\ args.epochs >= 2 => /\ Len(history) = args.epochs - 1
                              /\ head_history + Len(history) = args.epochs
       /\ args.epochs <= 1 => /\ Len(history) = 1
                              /\ head_history + Len(history) = 2

C4_Witness ==
    /\ new_model /\ pc = "done"
    /\ args.epochs = 3 /\ head_history = 1 /\ Len(history) = 2

\* C5: with an input model the run goes straight to one fine-tuning fit:
\* no head-training statement runs, no head epoch is run, and
\* intermediate_model.hdf5 is neither written nor read.
C5_ResumeSkipsIntermediate ==
    InputModelSupplied =>
       /\ ~new_model
       /\ head_history = 0
       /\ \A i \in 1..Len(trace) :
             trace[i] \notin {"freeze", "compile_head", "fit_head", "unfreeze",
                              "compile_unfrozen", "save_intermediate"}
       /\ Occurrences(trace, "fit") <= 1
       /\ \A i \in 1..Len(io_log) : io_log[i][2] # IntermediateName
       /\ ~WrittenByRun(intermediate_file)
       /\ intermediate_model = None

C5_Witness ==
    /\ InputModelSupplied /\ pc = "done"
    /\ intermediate_file # None
    /\ Occurrences(trace, "fit") = 1
    /\ Len(history) = args.epochs /\ Len(history) >= 2

\* the subsetting block (lines 86-94) ran to its end
SubsetDone ==
    /\ Len(trace) >= 2
    /\ pc # "subset"
    /\ pc = "crashed" => Len(trace) >= 3

C7_SameCardinality ==
    pc \in {"build", "freeze", "compile_head", "fit_head", "unfreeze",
            "compile_unfrozen", "save_intermediate", "reload", "compile",
            "callbacks", "fit"} =>
       Width(train_labels) = Width(val_labels)

Files == <<intermediate_file, checkpoint_file, plot_file>>

\* C9: a failing statement ends the run: nothing executes after it, no
\* statement is executed twice, and the files written before the failure
\* stay as they are.
C9_NoRetryNoRollback ==
    [][/\ NoDuplicates(trace')
       /\ pc = "crashed" => pc' = "crashed" /\ trace' = trace
       /\ pc' = "crashed" => Files' = Files]_vars

C9_Witness ==
    /\ pc = "crashed"
    /\ trace[Len(trace)] = "report"
    /\ WrittenByRun(intermediate_file)
    /\ WrittenByRun(checkpoint_file)

\* C10: on the fresh-model path, during the phase-1 epoch layer i is
\* trainable exactly when i >= 280; from the end of phase 1 on (at the save
\* of the intermediate model and throughout phase 2) every layer is trainable.
C10_FreezeSchedule ==
    new_model =>
       /\ pc \in {"compile_head", "fit_head", "unfreeze"} =>
             \A i \in 0..(model.layers - 1) :
                Trainable(model, i) <=> i >= FreezeBoundary
       /\ pc \in Phase2 \cup {"compile_unfrozen", "save_intermediate", "reload"} =>
             \A i \in 0..(model.layers - 1) : Trainable(model, i)
       /\ WrittenByRun(intermediate_file) =>
             \A i \in 0..(The(intermediate_file).model.layers - 1) :
                Trainable(The(intermediate_file).model, i)

C10_Witness ==
    /\ new_model /\ pc = "fit_epoch" /\ Len(history) >= 1
    /\ model.layers > FreezeBoundary
    /\ model.frozen = {}
====
